---- MODULE Spec2Model ----
(***************************************************************************)
(* Graceful-shutdown coordination of emby-downloader                       *)
(* (src/signal_handler.py): the ShutdownCoordinator with its registry of   *)
(* cleanup handlers, the SignalHandler that classifies SIGINT / SIGTERM    *)
(* deliveries, and the asyncio tasks the two create.                       *)
(*                                                                         *)
(* Time is the wall clock read by datetime.now(), in whole seconds.  One   *)
(* step of the model is one uninterrupted run of code on the event loop:   *)
(* a signal handler, a call of register_cleanup_handler, a task running    *)
(* from one suspension point to the next.                                  *)
(***************************************************************************)
EXTENDS Integers, Sequences, FiniteSets

\* ---------------------------------------------------------------- bounds
MaxTime == 11
MaxCalls == 2
MaxRegs == 2
MaxWaiters == 2
MaxChunks == 2
MaxSteps == 2

\* ------------------------------------------------------ program constants
TimeoutSeconds == 10
HandlerTimeout == 5
ForceThreshold == 2
RapidSignalWindow == 2

\* The names and priorities main() registers, and the operations a caller
\* of set_current_operation may name.
Names == {"emby_client", "downloader"}
Priorities == {1, 2}
Operations == {"idle", "downloading"}
SignalTypes == {"SIGINT", "SIGTERM"}

VARIABLES
    shutdown_requested,   \* ShutdownCoordinator._shutdown_requested
    shutdown_event,       \* ShutdownCoordinator._shutdown_event (is it set)
    cleanup_handlers,     \* ShutdownCoordinator._cleanup_handlers
    current_operation,    \* ShutdownCoordinator._current_operation
    console,              \* the lines the coordinator printed
    signal_count,         \* SignalHandler._signal_count
    last_signal_time,     \* SignalHandler._last_signal_time, <<>> is None
    now,                  \* the clock
    scheduled,            \* initiate_shutdown tasks created, not yet run (FIFO)
    runs,                 \* the _cleanup_resources activations
    registered,           \* history: the register_cleanup_handler calls
    deliveries,           \* history: the signal deliveries
    calls,                \* history: the initiate_shutdown calls that ran
    waiters,              \* the tasks that awaited _shutdown_event.wait()
    download,             \* Downloader: its client and its download_file call
    main,                 \* main(): its workflow and the exit of the process
    setup                 \* SignalHandler.setup_handlers and what it installed

vars == <<shutdown_requested, shutdown_event, cleanup_handlers,
          current_operation, console, signal_count, last_signal_time, now,
          scheduled, runs, registered, deliveries, calls, waiters, download,
          main, setup>>

coordinator == <<shutdown_requested, shutdown_event, cleanup_handlers,
                 current_operation, console, runs, registered, calls>>

observer == <<signal_count, last_signal_time, deliveries, setup>>

\* The rest of the program around the coordinator.
workload == <<waiters, download, main>>

\* ------------------------------------------------------------- the registry

\* CleanupHandler(name, handler, priority): the handler callable is
\* identified by the number of the registration that brought it.
CleanupHandler(name, handler, priority) ==
    [name |-> name, handler |-> handler, priority |-> priority,
     timeout |-> HandlerTimeout]

\* The bug of sorting ascending and reversing the list: equal keys swap.
InsertByPriorityTiesReversed(h, s) ==
    LET k == Cardinality({i \in 1..Len(s) : s[i].priority > h.priority})
    IN  SubSeq(s, 1, k) \o <<h>> \o SubSeq(s, k + 1, Len(s))

\* One insertion of list.sort(key=priority, reverse=True): Python's sort is
\* stable and reverse=True keeps the original order of equal keys, so h goes
\* behind every element whose priority is at least its own.
InsertByPriority(h, s) ==
    LET k == Cardinality({i \in 1..Len(s) : s[i].priority >= h.priority})
    IN  SubSeq(s, 1, k) \o <<h>> \o SubSeq(s, k + 1, Len(s))

\* self._cleanup_handlers.sort(key=lambda x: x.priority, reverse=True)
RECURSIVE SortByPriority(_)
SortByPriority(s) ==
    IF s = <<>> THEN <<>>
    ELSE InsertByPriority(s[Len(s)], SortByPriority(SubSeq(s, 1, Len(s) - 1)))

\* register_cleanup_handler(name, handler, priority): append, then sort.
\* Nothing is checked: neither the name nor the shutdown flag.
RegisterCleanupHandler(name, priority) ==
    /\ Len(registered) < MaxRegs
    /\ LET h == CleanupHandler(name, Len(registered) + 1, priority)
       IN  /\ cleanup_handlers' = SortByPriority(Append(cleanup_handlers, h))
           /\ registered' = Append(registered, h)
    /\ UNCHANGED <<shutdown_requested, shutdown_event, current_operation,
                   console, runs, calls, scheduled, now>>
    /\ UNCHANGED observer
    /\ UNCHANGED workload

\* The bug of taking the return to "idle" for the end of the shutdown.
SetCurrentOperationResets(operation) ==
    /\ current_operation # operation
    /\ current_operation' = operation
    /\ shutdown_requested' = (shutdown_requested /\ operation # "idle")
    /\ shutdown_event' = (shutdown_event /\ operation # "idle")
    /\ UNCHANGED <<cleanup_handlers, console, runs, registered, calls,
                   scheduled, now>>
    /\ UNCHANGED observer
    /\ UNCHANGED workload

\* set_current_operation(operation)
SetCurrentOperation(operation) ==
    /\ current_operation # operation
    /\ current_operation' = operation
    /\ UNCHANGED <<shutdown_requested, shutdown_event, cleanup_handlers,
                   console, runs, registered, calls, scheduled, now>>
    /\ UNCHANGED observer
    /\ UNCHANGED workload

\* ------------------------------------------------------- the signal handler

\* The bug of undoing the first installation when the second one fails.
InstallsRolledBack(denied) ==
    IF denied = {} THEN {"SIGINT", "SIGTERM"} ELSE {}

\* setup_handlers, lines 157-163: signal.signal for SIGINT, then for
\* SIGTERM; the first one the host denies raises and ends the try block,
\* what was installed before stays installed.
Installs(denied) ==
    IF "SIGINT" \in denied THEN {}
    ELSE IF "SIGTERM" \in denied THEN {"SIGINT"}
    ELSE {"SIGINT", "SIGTERM"}

\* setup_handlers(): the exception of a denied installation is caught and
\* logged (lines 166-168), so the call returns either way.
SetupHandlers(denied) ==
    /\ setup.pc = "pending"
    /\ setup' = [pc |-> "returned", installed |-> Installs(denied),
                 denied |-> denied,
                 logged |-> IF denied \cap {"SIGINT", "SIGTERM"} = {}
                            THEN "info" ELSE "error"]
    /\ UNCHANGED coordinator
    /\ UNCHANGED <<signal_count, last_signal_time, deliveries>>
    /\ UNCHANGED <<scheduled, now>>
    /\ UNCHANGED workload

\* The bug of comparing with <=: a signal exactly the window after the last
\* one still counts up.
RapidCountInclusive(count, last, t) ==
    IF last # <<>>
    THEN IF t - last[1] <= RapidSignalWindow THEN count + 1 ELSE 1
    ELSE 1

\* _handle_sigint, the counter: a signal less than the window after the
\* last one counts up, any other starts again at 1.
RapidCount(count, last, t) ==
    IF last # <<>>
    THEN IF t - last[1] < RapidSignalWindow THEN count + 1 ELSE 1
    ELSE 1

\* The bug of comparing with >: the third rapid signal forces, not the
\* second.
ForceShutdownAfterThreshold(count) == count > ForceThreshold

\* force_shutdown = self._signal_count >= self._force_threshold
ForceShutdown(count) == count >= ForceThreshold

\* The initiate_shutdown tasks created so far.
Created == Len(calls) + Len(scheduled)

\* _handle_sigint: classify, then create the initiate_shutdown task.
HandleSigint ==
    /\ "SIGINT" \in setup.installed
    /\ Created < MaxCalls
    /\ LET count == RapidCount(signal_count, last_signal_time, now)
           force == ForceShutdown(count)
       IN  /\ signal_count' = count
           /\ last_signal_time' = <<now>>
           /\ scheduled' = Append(scheduled,
                  [signal_type |-> "SIGINT", force |-> force])
           /\ deliveries' = Append(deliveries,
                  [signal_type |-> "SIGINT", at |-> now, force |-> force])
    /\ UNCHANGED coordinator
    /\ UNCHANGED <<now, setup>>
    /\ UNCHANGED workload

\* The bug of classifying a SIGTERM the way a SIGINT is classified.
SigtermForceFromCount == ForceShutdown(signal_count)

\* The force argument _handle_sigterm passes.
SigtermForce == TRUE

\* The bug of entering a SIGTERM into the signal history.
HandleSigtermCounted ==
    /\ "SIGTERM" \in setup.installed
    /\ Created < MaxCalls
    /\ scheduled' = Append(scheduled,
           [signal_type |-> "SIGTERM", force |-> SigtermForce])
    /\ deliveries' = Append(deliveries,
           [signal_type |-> "SIGTERM", at |-> now, force |-> SigtermForce])
    /\ signal_count' = RapidCount(signal_count, last_signal_time, now)
    /\ last_signal_time' = <<now>>
    /\ UNCHANGED coordinator
    /\ UNCHANGED <<now, setup>>
    /\ UNCHANGED workload

\* The bug of setting the shutdown flag inside the signal handler.
HandleSigtermInline ==
    /\ "SIGTERM" \in setup.installed
    /\ Created < MaxCalls
    /\ scheduled' = Append(scheduled,
           [signal_type |-> "SIGTERM", force |-> SigtermForce])
    /\ deliveries' = Append(deliveries,
           [signal_type |-> "SIGTERM", at |-> now, force |-> SigtermForce])
    /\ shutdown_requested' = TRUE
    /\ shutdown_event' = TRUE
    /\ UNCHANGED <<signal_count, last_signal_time>>
    /\ UNCHANGED <<cleanup_handlers, current_operation, console, runs,
                   registered, calls>>
    /\ UNCHANGED <<now, setup>>
    /\ UNCHANGED workload

\* _handle_sigterm: create the initiate_shutdown task, always forced.
HandleSigterm ==
    /\ "SIGTERM" \in setup.installed
    /\ Created < MaxCalls
    /\ scheduled' = Append(scheduled,
           [signal_type |-> "SIGTERM", force |-> SigtermForce])
    /\ deliveries' = Append(deliveries,
           [signal_type |-> "SIGTERM", at |-> now, force |-> SigtermForce])
    /\ UNCHANGED <<signal_count, last_signal_time>>
    /\ UNCHANGED coordinator
    /\ UNCHANGED <<now, setup>>
    /\ UNCHANGED workload

\* ------------------------------------------------------------ the coordinator

\* The bug of testing the flag alone: a forced call is dropped too.
IgnoredOnceRequested(force) == shutdown_requested

\* The bug of leaving the test out: no call is dropped.
NeverIgnored(force) == FALSE

\* initiate_shutdown, lines 69-70: a call is dropped when shutdown was
\* already requested and the call is not forced.
Ignored(force) == shutdown_requested /\ ~force

\* The notice initiate_shutdown prints.
Notice(signal_type, force) ==
    IF force THEN [text |-> "Force shutdown initiated", arg |-> ""]
    ELSE [text |-> "Graceful shutdown requested", arg |-> signal_type]

\* The last line _cleanup_resources prints.
Goodbye == [text |-> "Shutdown complete", arg |-> ""]

\* The bug of leaving the force argument out of the context.
ShutdownContextUnforced(signal_type, timestamp, force) ==
    [signal_type |-> signal_type, timestamp |-> timestamp,
     force_shutdown |-> FALSE, timeout_seconds |-> TimeoutSeconds]

\* ShutdownContext(signal_type, timestamp, force_shutdown), the timeout
\* taking its default.
ShutdownContext(signal_type, timestamp, force) ==
    [signal_type |-> signal_type, timestamp |-> timestamp,
     force_shutdown |-> force, timeout_seconds |-> TimeoutSeconds]

\* The variant that awaits each handler in turn: only the first is started
\* before the coordinator waits.
CleanupTasksFirstOnly ==
    [i \in 1..(IF cleanup_handlers = <<>> THEN 0 ELSE 1) |->
        [name |-> cleanup_handlers[i].name,
         handler |-> cleanup_handlers[i].handler,
         status |-> "running"]]

\* The variant that skips a handler an earlier run is still executing.
CleanupTasksSkipRunning ==
    LET busy == {h \in 1..Len(registered) :
                    \E r \in 1..Len(runs) :
                        \E i \in 1..Len(runs[r].cleanup_tasks) :
                            /\ runs[r].cleanup_tasks[i].handler = h
                            /\ runs[r].cleanup_tasks[i].status = "running"}
        free == SelectSeq(cleanup_handlers, LAMBDA c : c.handler \notin busy)
    IN  [i \in 1..Len(free) |->
            [name |-> free[i].name, handler |-> free[i].handler,
             status |-> "running"]]

\* _cleanup_resources, lines 97-109: one task per registered handler, in
\* the order of the list.  A task is "running" until it settles.
CleanupTasks ==
    [i \in 1..Len(cleanup_handlers) |->
        [name |-> cleanup_handlers[i].name,
         handler |-> cleanup_handlers[i].handler,
         status |-> "running"]]

\* The bug of setting the flag only once the cleanup has ended.
RequestedAfterCleanup(pc) == pc = "done"

\* Lines 86-87 stand before line 90: the flag and the event are set before
\* _cleanup_resources is entered, whatever becomes of it.
RequestedBeforeCleanup(pc) == TRUE

\* The variant that detaches the cleanup with create_task: the call returns
\* whatever the cleanup does.
CleanupDetached(pc) == "returned"

\* Line 90, "await self._cleanup_resources(context)": initiate_shutdown is
\* suspended for as long as _cleanup_resources runs, returns when that
\* returns and raises what that raises.
AwaitCleanup(pc) ==
    IF pc = "done" THEN "returned"
    ELSE IF pc \in {"raised", "cancelled"} THEN "raised" ELSE "awaiting"

\* _cleanup_resources up to its first suspension: with no task it runs to
\* its end at once, otherwise it waits in wait_for(gather(...)).
StartCleanup(context) ==
    LET pc == IF CleanupTasks = <<>> THEN "done" ELSE "waiting"
    IN  [context |-> context, start_time |-> now,
         cleanup_tasks |-> CleanupTasks, registrations |-> Len(registered),
         pc |-> pc, initiate_shutdown |-> AwaitCleanup(pc),
         log |-> <<>>, timed_out |-> FALSE]

\* A caller creates a task for initiate_shutdown(signal_type, force), the
\* way both signal handlers do, with arguments of its choice.
Request(signal_type, force) ==
    /\ Created < MaxCalls
    /\ scheduled' = Append(scheduled,
           [signal_type |-> signal_type, force |-> force])
    /\ UNCHANGED coordinator
    /\ UNCHANGED observer
    /\ UNCHANGED workload
    /\ UNCHANGED now

\* The bug of waking one waiter, the way Condition.notify() does.
SetEventWakesOne(ws) ==
    [i \in 1..Len(ws) |->
        [ws[i] EXCEPT !.released =
            \/ ws[i].released
            \/ \A j \in 1..(i - 1) : ws[j].released]]

\* self._shutdown_event.set(): asyncio.Event.set() wakes every task that
\* waits on the event.
SetEvent(ws) ==
    [i \in 1..Len(ws) |-> [ws[i] EXCEPT !.released = TRUE]]

\* A task runs "await coordinator.get_shutdown_event().wait()": wait()
\* returns at once when the event is set and suspends the task otherwise.
WaitOnEvent ==
    /\ Len(waiters) < MaxWaiters
    /\ waiters' = Append(waiters, [waited |-> ~shutdown_event,
                                   released |-> shutdown_event])
    /\ UNCHANGED coordinator
    /\ UNCHANGED observer
    /\ UNCHANGED <<scheduled, now, download, main>>

\* The event loop runs the oldest initiate_shutdown task: the whole of
\* initiate_shutdown and of _cleanup_resources up to the await of wait_for.
InitiateShutdown ==
    /\ scheduled # <<>>
    /\ LET c == Head(scheduled)
       IN  IF Ignored(c.force)
           THEN /\ calls' = Append(calls, [signal_type |-> c.signal_type,
                                           force |-> c.force, started |-> 0,
                                           handlers |-> Len(cleanup_handlers),
                                           effective |-> FALSE,
                                           at |-> now, run |-> 0])
                /\ UNCHANGED <<shutdown_requested, shutdown_event, console,
                               runs, waiters>>
           ELSE LET run == StartCleanup(
                               ShutdownContext(c.signal_type, now, c.force))
                IN  /\ console' = console
                           \o <<Notice(c.signal_type, c.force)>>
                           \o (IF run.pc = "done"
                               THEN <<Goodbye>> ELSE <<>>)
                    /\ shutdown_requested' = RequestedBeforeCleanup(run.pc)
                    /\ shutdown_event' = RequestedBeforeCleanup(run.pc)
                    /\ waiters' = SetEvent(waiters)
                    /\ runs' = Append(runs, run)
                    /\ calls' = Append(calls, [signal_type |-> c.signal_type,
                                   force |-> c.force,
                                   started |-> Len(run.cleanup_tasks),
                                   handlers |-> Len(cleanup_handlers),
                                   effective |-> TRUE,
                                   at |-> now, run |-> Len(runs) + 1])
    /\ scheduled' = Tail(scheduled)
    /\ UNCHANGED <<cleanup_handlers, current_operation, registered, now>>
    /\ UNCHANGED observer
    /\ UNCHANGED <<download, main>>

\* ------------------------------------------------------- the cleanup tasks

Settled == {"ok", "error", "cancelled"}

Unsettled(task) == task.status \notin Settled

\* A handler's own behaviour: it returns, it raises an error, or its task
\* ends cancelled (the handler lets a CancelledError through).  A handler
\* that never completes is one for which this step is never taken.  A task
\* that swallowed the cancellation wait_for sent it ("stubborn") goes on and
\* can only return or raise.
TaskSettles(r, i, outcome) ==
    /\ r \in 1..Len(runs)
    /\ i \in 1..Len(runs[r].cleanup_tasks)
    /\ Unsettled(runs[r].cleanup_tasks[i])
    /\ runs[r].cleanup_tasks[i].status = "stubborn" => outcome # "cancelled"
    /\ runs' = [runs EXCEPT ![r].cleanup_tasks[i].status = outcome]
    /\ UNCHANGED <<shutdown_requested, shutdown_event, cleanup_handlers,
                   current_operation, console, registered, calls, scheduled,
                   now>>
    /\ UNCHANGED observer
    /\ UNCHANGED workload

\* gather(..., return_exceptions=False): the first task that raises or is
\* cancelled makes the gather raise.
GatherFailFast(tasks) ==
    IF \E i \in 1..Len(tasks) : tasks[i].status \in {"error", "cancelled"}
    THEN "raises"
    ELSE IF \E i \in 1..Len(tasks) : Unsettled(tasks[i])
         THEN "pending" ELSE "results"

\* asyncio.gather(*tasks, return_exceptions=True): pending until every task
\* has settled, then the list of results and exceptions.
Gather(tasks) ==
    IF \E i \in 1..Len(tasks) : Unsettled(tasks[i])
    THEN "pending" ELSE "results"

\* Lines 123-128: the entries logged before task.exception() raises, which
\* it does for a cancelled task (CancelledError).
FirstCancelled(tasks) ==
    IF \E i \in 1..Len(tasks) : tasks[i].status = "cancelled"
    THEN CHOOSE i \in 1..Len(tasks) :
            /\ tasks[i].status = "cancelled"
            /\ \A j \in 1..(i - 1) : tasks[j].status # "cancelled"
    ELSE Len(tasks) + 1

ReportLog(tasks) ==
    [i \in 1..(FirstCancelled(tasks) - 1) |->
        [name |-> tasks[i].name,
         outcome |-> IF tasks[i].status = "error"
                     THEN "failed" ELSE "completed"]]

\* wait_for returns in time (lines 118-131, 140-143): every task is done,
\* so each is logged as failed or completed and the run ends; a cancelled
\* task makes task.exception() raise out of _cleanup_resources.
GatherReturns(r) ==
    /\ r \in 1..Len(runs)
    /\ runs[r].pc = "waiting"
    /\ Gather(runs[r].cleanup_tasks) # "pending"
    /\ LET tasks == runs[r].cleanup_tasks
           raised == \/ Gather(tasks) = "raises"
                     \/ FirstCancelled(tasks) <= Len(tasks)
           pc == IF raised THEN "raised" ELSE "done"
       IN  /\ runs' = [runs EXCEPT
                  ![r].pc = pc,
                  ![r].initiate_shutdown = AwaitCleanup(pc),
                  ![r].log = IF Gather(tasks) = "raises"
                             THEN <<>> ELSE ReportLog(tasks)]
           /\ console' = IF raised THEN console ELSE Append(console, Goodbye)
    /\ UNCHANGED <<shutdown_requested, shutdown_event, cleanup_handlers,
                   current_operation, registered, calls, scheduled, now>>
    /\ UNCHANGED observer
    /\ UNCHANGED workload

\* The bug of timing the run by the handlers' own timeout.
ExpiredEarly(run) == now - run.start_time >= HandlerTimeout

\* The timeout of wait_for(..., timeout=context.timeout_seconds).
Expired(run) == now - run.start_time >= run.context.timeout_seconds

\* wait_for times out: it cancels the gather, which cancels every task
\* still running, and waits for the gather to finish.  A task either ends
\* cancelled or swallows the cancellation and goes on.
WaitForTimesOut(r, stubborn) ==
    /\ r \in 1..Len(runs)
    /\ runs[r].pc = "waiting"
    /\ Gather(runs[r].cleanup_tasks) = "pending"
    /\ Expired(runs[r])
    /\ stubborn \subseteq
           {i \in 1..Len(runs[r].cleanup_tasks) :
               Unsettled(runs[r].cleanup_tasks[i])}
    /\ runs' = [runs EXCEPT
           ![r].pc = "cancelling",
           ![r].timed_out = TRUE,
           ![r].cleanup_tasks = [i \in 1..Len(runs[r].cleanup_tasks) |->
               IF Unsettled(runs[r].cleanup_tasks[i])
               THEN [runs[r].cleanup_tasks[i] EXCEPT
                       !.status = IF i \in stubborn
                                  THEN "stubborn" ELSE "cancelled"]
               ELSE runs[r].cleanup_tasks[i]]]
    /\ UNCHANGED <<shutdown_requested, shutdown_event, cleanup_handlers,
                   current_operation, console, registered, calls, scheduled,
                   now>>
    /\ UNCHANGED observer
    /\ UNCHANGED workload

\* The cancelled gather has finished: wait_for raises TimeoutError, lines
\* 133-143 find no task left to cancel and the run ends.
TimeoutReturns(r) ==
    /\ r \in 1..Len(runs)
    /\ runs[r].pc = "cancelling"
    /\ \A i \in 1..Len(runs[r].cleanup_tasks) :
           ~Unsettled(runs[r].cleanup_tasks[i])
    /\ runs' = [runs EXCEPT ![r].pc = "done",
                            ![r].initiate_shutdown = AwaitCleanup("done")]
    /\ console' = Append(console, Goodbye)
    /\ UNCHANGED <<shutdown_requested, shutdown_event, cleanup_handlers,
                   current_operation, registered, calls, scheduled, now>>
    /\ UNCHANGED observer
    /\ UNCHANGED workload

\* A step of the coordinator is due: the event loop takes it before any
\* measurable time passes.
Due(r) ==
    \/ /\ runs[r].pc = "waiting"
       /\ Gather(runs[r].cleanup_tasks) # "pending" \/ Expired(runs[r])
    \/ /\ runs[r].pc = "cancelling"
       /\ \A i \in 1..Len(runs[r].cleanup_tasks) :
              ~Unsettled(runs[r].cleanup_tasks[i])

\* A second passes.
Tick ==
    /\ now < MaxTime
    /\ \A r \in 1..Len(runs) : ~Due(r)
    /\ now' = now + 1
    /\ UNCHANGED coordinator
    /\ UNCHANGED observer
    /\ UNCHANGED workload
    /\ UNCHANGED scheduled

\* ------------------------------------------------------------ the downloader

\* The bug of reporting a cancelled download as a success.
ReturnsTrueOnCancel(path) == path \in {"success", "cancelled"}

\* What download_file returns on each of its ways out: True at line 93,
\* False at lines 87 (cancelled), 97 (httpx.HTTPError) and 100 (Exception).
Returns(path) == path = "success"

\* download_file has returned along the given path.
Returned(path, file) ==
    [download EXCEPT !.pc = "returned", !.path = path,
                     !.result = <<Returns(path)>>, !.file = file,
                     !.flag_at_return = shutdown_requested]

\* download_file up to the first chunk (lines 36-80): the client is created
\* when there is none, the stream is opened and open(file_path, "wb") makes
\* the empty output file.  A client that close() has closed is still there
\* ("if not self.client" is False) and refuses the request: that exception
\* is caught at line 98.
StartDownload ==
    /\ main.pc = "workflow"
    /\ download.pc = "idle"
    /\ download' = IF download.client = "closed"
                   THEN Returned("error", download.file)
                   ELSE [download EXCEPT !.pc = "streaming",
                                         !.client = "open",
                                         !.file = "partial"]
    /\ UNCHANGED coordinator
    /\ UNCHANGED observer
    /\ UNCHANGED <<scheduled, now, waiters, main>>

\* The bug of writing the chunk without a look at the flag.
ChunkArrivesUnchecked ==
    /\ download.pc = "streaming"
    /\ download.received < MaxChunks
    /\ download' = [download EXCEPT !.received = download.received + 1,
                                    !.written = download.written + 1]
    /\ UNCHANGED coordinator
    /\ UNCHANGED observer
    /\ UNCHANGED <<scheduled, now, waiters, main>>

\* aiter_bytes hands over the next chunk and the loop body runs (lines
\* 81-90): with the flag set the file is unlinked and False returned,
\* otherwise the chunk is written.
ChunkArrives ==
    /\ download.pc = "streaming"
    /\ download.received < MaxChunks
    /\ download' =
           IF shutdown_requested
           THEN [Returned("cancelled", "absent") EXCEPT
                    !.received = download.received + 1]
           ELSE [download EXCEPT !.received = download.received + 1,
                                 !.written = download.written + 1]
    /\ UNCHANGED coordinator
    /\ UNCHANGED observer
    /\ UNCHANGED <<scheduled, now, waiters, main>>

\* The stream is exhausted: the loop ends without another look at the flag,
\* the file is closed and True returned (lines 91-93).
StreamEnds ==
    /\ download.pc = "streaming"
    /\ download' = Returned("success", "complete")
    /\ UNCHANGED coordinator
    /\ UNCHANGED observer
    /\ UNCHANGED <<scheduled, now, waiters, main>>

\* Waiting for the next chunk raises (lines 95-100): an httpx.HTTPError of
\* the network, or the error of reading from a client that close() has
\* closed meanwhile.  The with statement closes the file; nothing removes it.
StreamFails(path) ==
    /\ download.pc = "streaming"
    /\ path \in {"http_error", "error"}
    /\ download' = Returned(path, download.file)
    /\ UNCHANGED coordinator
    /\ UNCHANGED observer
    /\ UNCHANGED <<scheduled, now, waiters, main>>

\* Downloader.close(), lines 139-142: "if self.client: await aclose()".
Close(client) == IF client = "none" THEN "none" ELSE "closed"

\* The task of one of main()'s two handlers runs: emby_client.close or
\* downloader.close, which closes the downloader's HTTP client.
HandlerCloses(r, i) ==
    /\ r \in 1..Len(runs)
    /\ i \in 1..Len(runs[r].cleanup_tasks)
    /\ runs[r].cleanup_tasks[i].status = "running"
    /\ runs' = [runs EXCEPT ![r].cleanup_tasks[i].status = "ok"]
    /\ download' = IF runs[r].cleanup_tasks[i].name = "downloader"
                   THEN [download EXCEPT !.client = Close(download.client)]
                   ELSE download
    /\ UNCHANGED <<shutdown_requested, shutdown_event, cleanup_handlers,
                   current_operation, console, registered, calls, scheduled,
                   now, waiters, main>>
    /\ UNCHANGED observer

\* ------------------------------------------------------------------- main()

\* asyncio.run(main()) on its way out cancels every task that is not done:
\* an initiate_shutdown task in the middle of its cleanup ends by the
\* CancelledError, and so does every handler task that has not settled.
Teardown(rs) ==
    [r \in 1..Len(rs) |->
        IF rs[r].pc \in {"done", "raised"} THEN rs[r]
        ELSE [rs[r] EXCEPT
                !.pc = "cancelled",
                !.initiate_shutdown = AwaitCleanup("cancelled"),
                !.cleanup_tasks = [i \in 1..Len(rs[r].cleanup_tasks) |->
                    IF rs[r].cleanup_tasks[i].status \in
                           {"ok", "error", "cancelled"}
                    THEN rs[r].cleanup_tasks[i]
                    ELSE [rs[r].cleanup_tasks[i] EXCEPT
                            !.status = "cancelled"]]]]

\* The workflow of main() goes one step on (lines 196-364): a prompt is
\* answered, an item or an episode is processed.  No step looks at the
\* shutdown flag.
MainStep ==
    /\ main.pc = "workflow"
    /\ download.pc # "streaming"
    /\ main.steps < MaxSteps
    /\ main' = [main EXCEPT !.steps = main.steps + 1]
    /\ UNCHANGED coordinator
    /\ UNCHANGED observer
    /\ UNCHANGED <<scheduled, now, waiters, download>>

\* The exit code of the process: 0 when main() returns, 1 from sys.exit(1)
\* at line 368.
ExitCode(failed) == IF failed THEN 1 ELSE 0

\* The workflow ends, by its last step (failed = FALSE) or by an unexpected
\* exception (lines 366-368), the finally block closes the two clients
\* unless shutdown was requested (lines 369-379), and asyncio.run returns,
\* cancelling the tasks that are left (line 382); an initiate_shutdown task
\* that was created and has not run yet never runs.
MainEnds(failed) ==
    /\ main.pc = "workflow"
    /\ download.pc # "streaming"
    /\ main' = [main EXCEPT !.pc = "exited", !.failed = failed,
                            !.exit_code = ExitCode(failed),
                            !.closed = ~shutdown_requested]
    /\ download' = IF shutdown_requested THEN download
                   ELSE [download EXCEPT !.client = Close(download.client)]
    /\ runs' = Teardown(runs)
    /\ scheduled' = <<>>
    /\ UNCHANGED <<shutdown_requested, shutdown_event, cleanup_handlers,
                   current_operation, console, registered, calls>>
    /\ UNCHANGED observer
    /\ UNCHANGED <<now, waiters>>

\* ------------------------------------------------------------ specification

\* Nobody waits on the event, Downloader() has no client and no download
\* under way, main() is in its workflow.
Idle ==
    /\ waiters = <<>>
    /\ download = [pc |-> "idle", client |-> "none", file |-> "absent",
                   received |-> 0, written |-> 0, path |-> "none",
                   result |-> <<>>, flag_at_return |-> FALSE]
    /\ main = [pc |-> "workflow", steps |-> 0, failed |-> FALSE,
               exit_code |-> -1, closed |-> FALSE]

\* setup_handlers() has installed both handlers.
HandlersInstalled ==
    setup = [pc |-> "returned", installed |-> {"SIGINT", "SIGTERM"},
             denied |-> {}, logged |-> "info"]

\* After ShutdownCoordinator(console), SignalHandler(coordinator) and
\* setup_handlers().
Init ==
    /\ shutdown_requested = FALSE
    /\ shutdown_event = FALSE
    /\ cleanup_handlers = <<>>
    /\ current_operation = "idle"
    /\ console = <<>>
    /\ signal_count = 0
    /\ last_signal_time = <<>>
    /\ now = 0
    /\ scheduled = <<>>
    /\ runs = <<>>
    /\ registered = <<>>
    /\ deliveries = <<>>
    /\ calls = <<>>
    /\ Idle
    /\ HandlersInstalled

\* The two registrations of main(), in its order.
MainRegistrations ==
    <<CleanupHandler("emby_client", 1, 1), CleanupHandler("downloader", 2, 2)>>

\* main() has registered its two handlers and the first signal, a SIGINT or
\* a SIGTERM, has just been delivered: its task is waiting to run.
InitSignalled ==
    /\ shutdown_requested = FALSE
    /\ shutdown_event = FALSE
    /\ registered = MainRegistrations
    /\ cleanup_handlers = SortByPriority(MainRegistrations)
    /\ current_operation = "idle"
    /\ console = <<>>
    /\ now = 0
    /\ runs = <<>>
    /\ calls = <<>>
    /\ Idle
    /\ HandlersInstalled
    /\ \/ /\ signal_count = RapidCount(0, <<>>, 0)
          /\ last_signal_time = <<0>>
          /\ scheduled = <<[signal_type |-> "SIGINT",
                            force |-> ForceShutdown(signal_count)]>>
          /\ deliveries = <<[signal_type |-> "SIGINT", at |-> 0,
                             force |-> ForceShutdown(signal_count)]>>
       \/ /\ signal_count = 0
          /\ last_signal_time = <<>>
          /\ scheduled = <<[signal_type |-> "SIGTERM",
                            force |-> SigtermForce]>>
          /\ deliveries = <<[signal_type |-> "SIGTERM", at |-> 0,
                             force |-> SigtermForce]>>

\* The signal handler alone: deliveries and the clock.
NextObserver ==
    \/ HandleSigint
    \/ HandleSigterm
    \/ Tick

SpecObserver == Init /\ [][NextObserver]_vars

\* Registrations, signal deliveries and shutdown requests within one
\* second: the calls of the coordinator's operations in any order.
NextRequests ==
    \/ \E name \in Names, priority \in Priorities :
           RegisterCleanupHandler(name, priority)
    \/ \E operation \in Operations : SetCurrentOperation(operation)
    \/ HandleSigint
    \/ HandleSigterm
    \/ \E signal_type \in SignalTypes, force \in BOOLEAN :
           Request(signal_type, force)
    \/ InitiateShutdown

SpecRequests == Init /\ [][NextRequests]_vars

\* One shutdown episode of the started program: the cleanup run, its tasks
\* and the clock.
NextCleanup ==
    \/ InitiateShutdown
    \/ \E r \in 1..MaxCalls, i \in 1..MaxRegs, outcome \in Settled :
           TaskSettles(r, i, outcome)
    \/ \E r \in 1..MaxCalls : GatherReturns(r)
    \/ \E r \in 1..MaxCalls, stubborn \in SUBSET (1..MaxRegs) :
           WaitForTimesOut(r, stubborn)
    \/ \E r \in 1..MaxCalls : TimeoutReturns(r)
    \/ Tick

SpecCleanup == InitSignalled /\ [][NextCleanup]_vars

\* The tasks that wait on the shutdown event, and the requests that set it.
NextEvent ==
    \/ WaitOnEvent
    \/ HandleSigint
    \/ HandleSigterm
    \/ \E signal_type \in SignalTypes, force \in BOOLEAN :
           Request(signal_type, force)
    \/ InitiateShutdown

SpecEvent == Init /\ [][NextEvent]_vars

\* main() has registered its two handlers; no signal has arrived yet.
InitRegistered ==
    /\ shutdown_requested = FALSE
    /\ shutdown_event = FALSE
    /\ registered = MainRegistrations
    /\ cleanup_handlers = SortByPriority(MainRegistrations)
    /\ current_operation = "idle"
    /\ console = <<>>
    /\ signal_count = 0
    /\ last_signal_time = <<>>
    /\ now = 0
    /\ scheduled = <<>>
    /\ runs = <<>>
    /\ deliveries = <<>>
    /\ calls = <<>>
    /\ Idle
    /\ HandlersInstalled

\* One download of the started program with signals arriving: download_file,
\* the initiate_shutdown tasks and the two close handlers they start.
NextDownload ==
    \/ StartDownload
    \/ ChunkArrives
    \/ StreamEnds
    \/ \E path \in {"http_error", "error"} : StreamFails(path)
    \/ HandleSigint
    \/ HandleSigterm
    \/ InitiateShutdown
    \/ \E r \in 1..MaxCalls, i \in 1..MaxRegs : HandlerCloses(r, i)
    \/ \E r \in 1..MaxCalls : GatherReturns(r)

SpecDownload == InitRegistered /\ [][NextDownload]_vars

\* One shutdown episode and the workflow of main() beside it.
NextMain ==
    \/ InitiateShutdown
    \/ \E r \in 1..MaxCalls, i \in 1..MaxRegs, outcome \in Settled :
           TaskSettles(r, i, outcome)
    \/ \E r \in 1..MaxCalls : GatherReturns(r)
    \/ MainStep
    \/ \E failed \in BOOLEAN : MainEnds(failed)

\* The event loop runs every task that is ready, and every handler task
\* settles.  Nothing makes main() go on: its steps wait for the user and
\* for the server.
FairMain ==
    /\ WF_vars(InitiateShutdown)
    /\ WF_vars(\E r \in 1..MaxCalls, i \in 1..MaxRegs, outcome \in Settled :
                   TaskSettles(r, i, outcome))
    /\ WF_vars(\E r \in 1..MaxCalls : GatherReturns(r))

SpecMain == InitSignalled /\ [][NextMain]_vars /\ FairMain

\* After ShutdownCoordinator(console) and SignalHandler(coordinator), before
\* setup_handlers() (main.py, lines 169-170).
InitConstructed ==
    /\ shutdown_requested = FALSE
    /\ shutdown_event = FALSE
    /\ cleanup_handlers = <<>>
    /\ current_operation = "idle"
    /\ console = <<>>
    /\ signal_count = 0
    /\ last_signal_time = <<>>
    /\ now = 0
    /\ scheduled = <<>>
    /\ runs = <<>>
    /\ registered = <<>>
    /\ deliveries = <<>>
    /\ calls = <<>>
    /\ Idle
    /\ setup = [pc |-> "pending", installed |-> {}, denied |-> {},
                logged |-> "none"]

\* Start-up: setup_handlers with the host denying any of the installations,
\* the registrations that follow it, and the signals the installed handlers
\* receive.
NextSetup ==
    \/ \E denied \in SUBSET SignalTypes : SetupHandlers(denied)
    \/ \E name \in Names, priority \in Priorities :
           RegisterCleanupHandler(name, priority)
    \/ HandleSigint
    \/ HandleSigterm
    \/ InitiateShutdown

SpecSetup == InitConstructed /\ [][NextSetup]_vars

\* The whole program.  Its state space is the product of the parts above,
\* which are explored one by one: the signal handler with the clock, the
\* coordinator's operations in any order, one cleanup run in time, the
\* waiters of the event, one download, and the workflow of main().
Next ==
    \/ NextRequests
    \/ NextCleanup
    \/ NextEvent
    \/ NextDownload
    \/ NextMain
    \/ NextSetup

Spec == Init /\ [][Next]_vars

\* ------------------------------------------------------------------ claims

\* C1: the order in which _cleanup_resources starts the handlers is the
\* stable sort of the registration sequence by descending priority: every
\* handler registered before the run is started exactly once, a handler of
\* higher priority before one of lower priority, and handlers of equal
\* priority in the order of their registration.
C1_StartOrderIsStableSort ==
    \A r \in 1..Len(runs) :
        LET t == runs[r].cleanup_tasks
            n == runs[r].registrations
        IN  /\ Len(t) = n
            /\ {t[i].handler : i \in 1..Len(t)} = 1..n
            /\ \A i, j \in 1..Len(t) :
                  i < j =>
                    \/ registered[t[i].handler].priority
                          > registered[t[j].handler].priority
                    \/ /\ registered[t[i].handler].priority
                             = registered[t[j].handler].priority
                       /\ t[i].handler < t[j].handler

\* A run started two handlers, the one registered second first because its
\* priority is higher.
C1_Witness ==
    \E r \in 1..Len(runs) :
        /\ Len(runs[r].cleanup_tasks) = 2
        /\ registered[1].priority < registered[2].priority
        /\ runs[r].cleanup_tasks[1].handler = 2
        /\ runs[r].cleanup_tasks[2].handler = 1

C3_RepeatedRequestChangesNothing ==
    [][(/\ Len(calls') = Len(calls) + 1
        /\ calls # <<>>
        /\ ~calls[1].force
        /\ ~calls'[Len(calls')].force
        /\ calls'[Len(calls')].signal_type = calls[1].signal_type)
       => /\ shutdown_requested /\ shutdown_requested'
          /\ shutdown_event /\ shutdown_event'
          /\ UNCHANGED <<console, runs, cleanup_handlers>>]_vars

\* Two calls with force=False for the same signal have run.
C3_Witness ==
    /\ Len(calls) >= 2
    /\ ~calls[1].force
    /\ ~calls[2].force
    /\ calls[2].signal_type = calls[1].signal_type

\* C4, as claimed: a handler that has not settled when its own timeout
\* (CleanupHandler.timeout) has elapsed since the start of the run is
\* cancelled then, so that no task is still running after it.
C4_HandlerCancelledAtOwnTimeout ==
    \A r \in 1..Len(runs) :
        \A i \in 1..Len(runs[r].cleanup_tasks) :
            now - runs[r].start_time
                  > registered[runs[r].cleanup_tasks[i].handler].timeout
               => runs[r].cleanup_tasks[i].status # "running"

\* C5, as claimed: a cleanup run has reached the end of _cleanup_resources
\* once more than the aggregate timeout has passed since its start.
C5_DoneByAggregateTimeout ==
    \A r \in 1..Len(runs) :
        now - runs[r].start_time > runs[r].context.timeout_seconds
           => runs[r].pc = "done"

\* A run whose handlers all returned or raised before the aggregate timeout
\* ends normally, each handler that raised logged as failed and each handler
\* that returned logged as completed.
C6_Recorded ==
    \A r \in 1..Len(runs) :
        LET t == runs[r].cleanup_tasks
        IN  (/\ \A i \in 1..Len(t) : t[i].status \in {"ok", "error"}
             /\ runs[r].pc # "waiting"
             /\ ~runs[r].timed_out)
            => /\ runs[r].pc = "done"
               /\ Len(runs[r].log) = Len(t)
               /\ \A i \in 1..Len(t) :
                     /\ runs[r].log[i].name = t[i].name
                     /\ runs[r].log[i].outcome = "failed"
                           <=> t[i].status = "error"
                     /\ runs[r].log[i].outcome = "completed"
                           <=> t[i].status = "ok"

\* A settled task keeps its outcome, and the step in which a task raises
\* changes no other task and does not end the coordinator's wait.
C6_Isolated ==
    \A r \in 1..Len(runs) :
        \A i \in 1..Len(runs[r].cleanup_tasks) :
            /\ runs[r].cleanup_tasks[i].status \in Settled
                  => runs'[r].cleanup_tasks[i].status
                        = runs[r].cleanup_tasks[i].status
            /\ (/\ runs[r].cleanup_tasks[i].status = "running"
                /\ runs'[r].cleanup_tasks[i].status = "error")
               => /\ runs'[r].pc = runs[r].pc
                  /\ \A j \in 1..Len(runs[r].cleanup_tasks) :
                        j # i => runs'[r].cleanup_tasks[j]
                                    = runs[r].cleanup_tasks[j]

C7_SecondRapidSigintForces ==
    /\ (/\ Len(deliveries) >= 1
        /\ deliveries[1].signal_type = "SIGINT")
       => /\ ~deliveries[1].force
          /\ scheduled[1] = [signal_type |-> "SIGINT", force |-> FALSE]
    /\ (/\ Len(deliveries) >= 2
        /\ deliveries[1].signal_type = "SIGINT"
        /\ deliveries[2].signal_type = "SIGINT")
       => /\ deliveries[2].force
             <=> deliveries[2].at - deliveries[1].at < RapidSignalWindow
          /\ scheduled[2] = [signal_type |-> "SIGINT",
                             force |-> deliveries[2].force]

\* Two SIGINTs one second apart: the second is forced.
C7_Witness ==
    /\ Len(deliveries) >= 2
    /\ deliveries[1].signal_type = "SIGINT"
    /\ deliveries[2].signal_type = "SIGINT"
    /\ deliveries[2].at - deliveries[1].at = 1
    /\ ~deliveries[1].force
    /\ deliveries[2].force

\* C8: every SIGTERM delivery schedules initiate_shutdown with force=True,
\* whatever the signal history.
C8_SigtermAlwaysForces ==
    \A k \in 1..Len(deliveries) :
        deliveries[k].signal_type = "SIGTERM"
           => /\ deliveries[k].force
              /\ scheduled[k] = [signal_type |-> "SIGTERM", force |-> TRUE]

\* A SIGTERM delivered after a lone SIGINT, the counter at 1.
C8_Witness ==
    /\ Len(deliveries) >= 2
    /\ deliveries[1].signal_type = "SIGINT"
    /\ deliveries[2].signal_type = "SIGTERM"
    /\ signal_count = 1
    /\ scheduled[2].force

\* C9, as claimed: the registry never holds two handlers of the same name.
C9_NoTwoHandlersOfOneName ==
    \A i, j \in 1..Len(cleanup_handlers) :
        i # j => cleanup_handlers[i].name # cleanup_handlers[j].name

\* C10, as claimed: once a shutdown request has taken effect the registry
\* does not change any more.
C10_NoRegistrationAfterShutdown ==
    [][shutdown_requested => cleanup_handlers' = cleanup_handlers]_vars

\* C11: the shutdown event is set if and only if the shutdown flag is, which
\* is if and only if an initiate_shutdown call has taken effect; and every
\* task that waits on the event, however many there are, is released if and
\* only if the event is set.
C11_EventFollowsFlag ==
    /\ shutdown_event <=> shutdown_requested
    /\ shutdown_event <=> \E k \in 1..Len(calls) : calls[k].effective
    /\ \A w \in 1..Len(waiters) : waiters[w].released <=> shutdown_event

\* Two tasks were suspended on the event and the request released both.
C11_Witness ==
    /\ shutdown_event
    /\ Len(waiters) >= 2
    /\ \A w \in 1..2 : waiters[w].waited /\ waiters[w].released

\* C12: shutdown is terminal: no step of register_cleanup_handler,
\* set_current_operation, initiate_shutdown or a signal handler takes the
\* shutdown flag from True back to False or clears the shutdown event.
C12_ShutdownIsTerminal ==
    [][/\ shutdown_requested => shutdown_requested'
       /\ shutdown_event => shutdown_event']_vars

\* After the first request: a handler was registered, the operation was
\* set, and a second, forced request ran.
C12_Witness ==
    /\ shutdown_requested
    /\ shutdown_event
    /\ Len(calls) >= 2
    /\ calls[2].force
    /\ current_operation = "downloading"
    /\ Len(registered) > runs[1].registrations

C13_FileGone ==
    (/\ download.pc = "returned"
     /\ download.flag_at_return
     /\ download.path # "success")
        => download.file = "absent"

C13_NoWriteOnceRequested ==
    shutdown_requested => download'.written = download.written

\* C13: for every interleaving of download_file with initiate_shutdown and
\* the close handlers, once the shutdown flag is set before the transfer has
\* finished download_file writes no further chunk and, when it has returned,
\* the incomplete output file does not exist.
C13_StopsAndDiscards ==
    /\ []C13_FileGone
    /\ [][C13_NoWriteOnceRequested]_vars

\* C14, as claimed: what download_file returns when it aborts for the
\* shutdown flag differs from what it returns on success and from what it
\* returns on an HTTP or other error.
C14_CancelledIsDistinguished ==
    download.path = "cancelled" =>
        /\ download.result # <<Returns("success")>>
        /\ download.result # <<Returns("http_error")>>
        /\ download.result # <<Returns("error")>>

\* C14, amended: what download_file returns when it aborts for the shutdown
\* flag differs from what it returns on success and is what it returns on an
\* HTTP or other error.
C14_CancelledReturnsAsFailed ==
    download.path = "cancelled" =>
        /\ download.result # <<Returns("success")>>
        /\ download.result = <<Returns("http_error")>>
        /\ download.result = <<Returns("error")>>

\* A download was aborted for the flag after it had written a chunk.
C14_Witness ==
    /\ download.path = "cancelled"
    /\ download.written >= 1
    /\ download.file = "absent"

\* C15, as claimed: once a call has set the flag and started the cleanup,
\* initiate_shutdown has returned to its caller, whether or not the handlers
\* have settled.
C15_ReturnsAtOnce ==
    \A r \in 1..Len(runs) : runs[r].initiate_shutdown = "returned"

\* C15, amended: a call that takes effect sets the flag and the event and
\* starts the cleanup, and initiate_shutdown stays suspended for exactly as
\* long as _cleanup_resources waits for the handlers or for the timeout.
C15_ReturnsWhenCleanupEnds ==
    \A r \in 1..Len(runs) :
        /\ shutdown_requested
        /\ shutdown_event
        /\ runs[r].initiate_shutdown = "awaiting"
               <=> runs[r].pc \in {"waiting", "cancelling"}
        /\ runs[r].initiate_shutdown = "returned" <=> runs[r].pc = "done"

\* Seconds after the call a handler is still running and initiate_shutdown
\* has not returned.
C15_Witness ==
    \E r \in 1..Len(runs) :
        /\ runs[r].pc = "waiting"
        /\ runs[r].initiate_shutdown = "awaiting"
        /\ now >= runs[r].start_time + 2
        /\ \E i \in 1..Len(runs[r].cleanup_tasks) :
               Unsettled(runs[r].cleanup_tasks[i])

\* C16: from every state in which _cleanup_resources has finished, the exit
\* of the process follows, with no step of the workflow of main() required
\* to happen.
C16_ExitFollowsCleanup ==
    (\E r \in 1..Len(runs) : runs[r].pc = "done") ~> (main.pc = "exited")

\* C17: after a shutdown during which main() met no error of its own, the
\* exit code is 0 when every cleanup handler succeeded and not 0 when a
\* cleanup handler failed.
C17_ExitCodeReflectsCleanup ==
    (main.pc = "exited" /\ ~main.failed /\ runs # <<>>) =>
        /\ (\A r \in 1..Len(runs) : \A i \in 1..Len(runs[r].cleanup_tasks) :
                runs[r].cleanup_tasks[i].status = "ok")
               => main.exit_code = 0
        /\ (\E r \in 1..Len(runs) : \E i \in 1..Len(runs[r].cleanup_tasks) :
                runs[r].cleanup_tasks[i].status = "error")
               => main.exit_code # 0

\* C18: when a run has ended by the aggregate timeout, every handler has
\* its record: timed out when the timeout cancelled it, completed or failed
\* when it had settled before.
C18_TimeoutRecordsEveryHandler ==
    \A r \in 1..Len(runs) :
        (runs[r].timed_out /\ runs[r].pc = "done") =>
            /\ Len(runs[r].log) = Len(runs[r].cleanup_tasks)
            /\ \A i \in 1..Len(runs[r].cleanup_tasks) :
                   /\ runs[r].log[i].name = runs[r].cleanup_tasks[i].name
                   /\ runs[r].log[i].outcome =
                          CASE runs[r].cleanup_tasks[i].status = "ok"
                                   -> "completed"
                            [] runs[r].cleanup_tasks[i].status = "error"
                                   -> "failed"
                            [] OTHER -> "timed_out"

\* C19: no outcome of a cleanup handler makes _cleanup_resources, and with
\* it initiate_shutdown, end by an exception.
C19_NothingEscapes ==
    \A r \in 1..Len(runs) :
        /\ runs[r].pc # "raised"
        /\ runs[r].initiate_shutdown # "raised"

C20_Created ==
    /\ Len(runs) = Cardinality({k \in 1..Len(calls) : calls[k].effective})
    /\ \A k \in 1..Len(calls) :
           /\ calls[k].effective <=> (k = 1 \/ calls[k].force)
           /\ calls[k].effective =>
                  runs[calls[k].run].context =
                      [signal_type |-> calls[k].signal_type,
                       timestamp |-> calls[k].at,
                       force_shutdown |-> calls[k].force,
                       timeout_seconds |-> TimeoutSeconds]

C20_Kept ==
    \A r \in 1..Len(runs) : runs'[r].context = runs[r].context

C21_Returned ==
    /\ setup.pc \in {"pending", "returned"}
    /\ setup.pc = "returned" =>
           /\ setup.logged = (IF setup.denied = {} THEN "info" ELSE "error")
           /\ "SIGINT" \notin setup.denied => "SIGINT" \in setup.installed
           /\ setup.installed \cap setup.denied = {}

C21_CoordinatorUntouched ==
    setup' # setup => UNCHANGED <<coordinator, scheduled>>

\* C21: setup_handlers always returns: a denied installation is logged, the
\* call changes neither the coordinator's state nor its registry, a handler
\* installed before the denied installation stays installed, and the rest
\* of the program goes on.
C21_SetupNeverRaises ==
    /\ []C21_Returned
    /\ [][C21_CoordinatorUntouched]_vars

\* The SIGTERM installation was denied: the SIGINT handler stayed, a
\* cleanup handler was registered afterwards and a SIGINT ran a shutdown.
C21_Witness ==
    /\ setup.pc = "returned"
    /\ setup.denied = {"SIGTERM"}
    /\ setup.installed = {"SIGINT"}
    /\ setup.logged = "error"
    /\ Len(registered) >= 1
    /\ Len(calls) >= 1
    /\ calls[1].started >= 1

\* C22: in a cleanup run every handler registered at its start has its task
\* from the first state of the run on, before the coordinator waits for any
\* of them: a handler that never completes, of whatever priority, keeps no
\* other handler from starting.
C22_AllStartedBeforeWaiting ==
    \A r \in 1..Len(runs) :
        /\ Len(runs[r].cleanup_tasks) = runs[r].registrations
        /\ \A h \in 1..runs[r].registrations :
               \E i \in 1..Len(runs[r].cleanup_tasks) :
                   runs[r].cleanup_tasks[i].handler = h

\* Five seconds into the run the handler of the highest priority is still
\* running, and the one behind it has started and completed.
C22_Witness ==
    \E r \in 1..Len(runs) :
        /\ runs[r].pc = "waiting"
        /\ now >= runs[r].start_time + 5
        /\ Len(runs[r].cleanup_tasks) >= 2
        /\ runs[r].cleanup_tasks[1].status = "running"
        /\ runs[r].cleanup_tasks[2].status = "ok"

C23_Goodbyes ==
    Cardinality({n \in 1..Len(console) : console[n] = Goodbye})

\* C23: a run has reported completion ("Shutdown complete") only when every
\* handler it started had settled by itself, or when the aggregate timeout
\* had elapsed; one report per completed run.
C23_CompletionOnlyWhenSettledOrTimedOut ==
    /\ \A r \in 1..Len(runs) :
           runs[r].pc = "done" =>
               \/ /\ ~runs[r].timed_out
                  /\ \A i \in 1..Len(runs[r].cleanup_tasks) :
                         runs[r].cleanup_tasks[i].status \in {"ok", "error"}
               \/ /\ runs[r].timed_out
                  /\ now - runs[r].start_time
                         >= runs[r].context.timeout_seconds
    /\ C23_Goodbyes
           = Cardinality({r \in 1..Len(runs) : runs[r].pc = "done"})

\* A run completed by the timeout, ten seconds after its start, and was
\* reported.
C23_Witness ==
    /\ \E r \in 1..Len(runs) :
           /\ runs[r].pc = "done"
           /\ runs[r].timed_out
           /\ now - runs[r].start_time = TimeoutSeconds
    /\ C23_Goodbyes = 1

\* The SIGINT delivery before delivery k, 0 when there is none.
C24_PreviousSigint(k) ==
    IF \E j \in 1..(k - 1) : deliveries[j].signal_type = "SIGINT"
    THEN CHOOSE j \in 1..(k - 1) :
            /\ deliveries[j].signal_type = "SIGINT"
            /\ \A m \in (j + 1)..(k - 1) :
                   deliveries[m].signal_type # "SIGINT"
    ELSE 0

RECURSIVE C25_SigintsOnly(_)
C25_SigintsOnly(ds) ==
    IF ds = <<>> THEN <<0, <<>>>>
    ELSE LET before == C25_SigintsOnly(SubSeq(ds, 1, Len(ds) - 1))
             d == ds[Len(ds)]
         IN  IF d.signal_type = "SIGINT"
             THEN <<RapidCount(before[1], before[2], d.at), <<d.at>>>>
             ELSE before

C25_HistoryOfSigints ==
    <<signal_count, last_signal_time>> = C25_SigintsOnly(deliveries)

C25_SigtermKeepsHistory ==
    (/\ Len(deliveries') = Len(deliveries) + 1
     /\ deliveries'[Len(deliveries')].signal_type = "SIGTERM")
        => UNCHANGED <<signal_count, last_signal_time>>

\* C25: a SIGTERM delivery leaves _signal_count and _last_signal_time as
\* they were, so the two are at any time what the SIGINT deliveries alone
\* have made them, whatever SIGTERMs came in between.
C25_SigtermLeavesHistory ==
    /\ []C25_HistoryOfSigints
    /\ [][C25_SigtermKeepsHistory]_vars

\* A SIGINT in the same second as a SIGTERM before it: it counts as the
\* first signal and is not forced.
C25_Witness ==
    /\ Len(deliveries) >= 2
    /\ deliveries[1].signal_type = "SIGTERM"
    /\ deliveries[2].signal_type = "SIGINT"
    /\ deliveries[2].at = deliveries[1].at
    /\ ~deliveries[2].force
    /\ signal_count = 1

C26_DeliveryOnlySchedules ==
    deliveries' # deliveries =>
        /\ UNCHANGED <<shutdown_requested, shutdown_event, cleanup_handlers,
                       runs, calls, console>>
        /\ Len(deliveries') = Len(deliveries) + 1
        /\ scheduled' = Append(scheduled,
               [signal_type |-> deliveries'[Len(deliveries')].signal_type,
                force |-> deliveries'[Len(deliveries')].force])

C26_FlagSetByTask ==
    shutdown_requested' # shutdown_requested =>
        /\ scheduled # <<>>
        /\ scheduled' = Tail(scheduled)
        /\ Len(calls') = Len(calls) + 1
        /\ UNCHANGED deliveries

\* C26: a signal delivery adds one entry to the signal history and creates
\* one initiate_shutdown task; it changes neither the shutdown flag, the
\* event nor the registry and starts no cleanup handler; the flag changes
\* only in the step in which a created task runs.
C26_HandlersOnlySchedule ==
    /\ [][C26_DeliveryOnlySchedules]_vars
    /\ [][C26_FlagSetByTask]_vars

\* A signal has been delivered with handlers registered, and its task has
\* not run yet: the flag is still False and no handler has been started.
C26_Witness ==
    /\ Len(deliveries) >= 1
    /\ Len(scheduled) >= 1
    /\ cleanup_handlers # <<>>
    /\ ~shutdown_requested
    /\ ~shutdown_event
    /\ runs = <<>>

\* C27: in every state in which a cleanup handler has been started, the
\* shutdown flag is True and the shutdown event is set.
C27_FlagBeforeHandlers ==
    (\E r \in 1..Len(runs) : runs[r].cleanup_tasks # <<>>)
        => (shutdown_requested /\ shutdown_event)

\* A handler is running and the flag is set.
C27_Witness ==
    /\ shutdown_requested
    /\ shutdown_event
    /\ \E r \in 1..Len(runs) : \E i \in 1..Len(runs[r].cleanup_tasks) :
           runs[r].cleanup_tasks[i].status = "running"

C28_NewRunOfEveryHandler ==
    \A k \in 2..Len(calls) :
        (calls[k].force /\ shutdown_requested) =>
            /\ calls[k].run = Cardinality({j \in 1..k : calls[j].effective})
            /\ LET run == runs[calls[k].run]
               IN  /\ run.context.force_shutdown
                   /\ Len(run.cleanup_tasks) = run.registrations
                   /\ {run.cleanup_tasks[i].handler :
                          i \in 1..Len(run.cleanup_tasks)}
                         = 1..run.registrations

C28_EarlierRunsGoOn ==
    Len(runs') > Len(runs) => SubSeq(runs', 1, Len(runs)) = runs

\* C28: a forced initiate_shutdown call that comes when shutdown was
\* already requested starts a cleanup run of its own with a task for every
\* registered handler, and leaves the tasks of the earlier runs as they are,
\* settled or not.
C28_ForcedCallRunsHandlersAgain ==
    /\ []C28_NewRunOfEveryHandler
    /\ [][C28_EarlierRunsGoOn]_vars

\* Two executions of one handler are in flight: a task of the first run and
\* a task of the forced second run, both running.
C28_Witness ==
    /\ Len(runs) >= 2
    /\ \E i \in 1..Len(runs[1].cleanup_tasks) :
       \E j \in 1..Len(runs[2].cleanup_tasks) :
           /\ runs[1].cleanup_tasks[i].handler
                  = runs[2].cleanup_tasks[j].handler
           /\ runs[1].cleanup_tasks[i].status = "running"
           /\ runs[2].cleanup_tasks[j].status = "running"

C29_WrittenWhileFlagFalse ==
    download'.written # download.written =>
        /\ ~shutdown_requested
        /\ ~shutdown_requested'
        /\ download'.written = download.written + 1

C29_CancelledAtAChunk ==
    download.path = "cancelled" =>
        /\ download.flag_at_return
        /\ download.received = download.written + 1
        /\ download.file = "absent"

C29_EndOfStreamIsSuccess ==
    (/\ download.pc = "streaming"
     /\ download'.pc = "returned"
     /\ download'.received = download.received
     /\ download'.path \notin {"http_error", "error"})
        => /\ download'.path = "success"
           /\ download'.result = <<TRUE>>
           /\ download'.file = "complete"

C30_BothClosedBeforeExit ==
    main.pc = "exited" =>
        \A name \in {"emby_client", "downloader"} :
            \/ main.closed
            \/ \E r \in 1..Len(runs) :
               \E i \in 1..Len(runs[r].cleanup_tasks) :
                   /\ runs[r].cleanup_tasks[i].name = name
                   /\ runs[r].cleanup_tasks[i].status = "ok"

====
